---- MODULE Spec2Model ----
(***************************************************************************)
(* Token lifecycle (src/lib/auth/jwt-service.ts) and login rate limiter    *)
(* (PasswordService.checkRateLimit / resetRateLimit) of the EPOP platform. *)
(*                                                                         *)
(* Time is Date.now() in milliseconds.  A signed JWT is a record of its    *)
(* claims plus the secret it was signed with; jwt.verify accepts it when   *)
(* the secret matches and floor(now / 1000) < exp.                         *)
(***************************************************************************)
EXTENDS Integers, Sequences, FiniteSets, TLC

VARIABLES
    now,                \* Date.now(), ms
    ticks,              \* number of clock advances so far (bounds the run)
    env,                \* process.env: JWT_ACCESS_SECRET, JWT_REFRESH_SECRET
    refreshTokens,      \* Map tokenId -> {userId, tokenId, expiresAt, createdAt, isRevoked}
    blacklistedTokens,  \* Set of token ids
    issued,             \* every token string the service has signed so far
    pc,                 \* per request: "ready" or "await" (refreshTokens awaiting the db)
    req,                \* per request: the validated payload refreshTokens holds while it awaits
    lastReturn,         \* the refreshTokens call that returned in the latest step, or NULL
    hTok,               \* history: per issued token id, the user and login it stems from
    hRotated,           \* history: per refresh token id, how many rotations of it returned a pair
    hReuse,             \* history: per request, was its token already rotated when it started
    hRevokedAll,        \* history: ids issued to U before some revokeAllUserTokens(U)
    hBlacklisted,       \* history: tokens handed to blacklistToken
    hLogout,            \* history: per completed logout, its access token and the refresh ids its user held
    hPasswordReset,     \* history: access tokens issued to U before a password reset of U succeeded
    rateLimitStore,     \* Map key -> {attempts, firstAttempt, lockedUntil?}
    lastCheck,          \* the checkRateLimit call made in the latest step (key, result, history), or NULL
    hAttempts,          \* history: per key, times of the latest checks since the last reset
    hLocked,            \* history: per key, the time the current lockout was recorded
    hReset,             \* history: per key, the counter a resetRateLimit cleared, until the next check
    hRetry,             \* history: per key, the time its latest denial told the caller to retry at
    hAlone,             \* history: per key, the store and the latest result had only this key been called
    hPassed,            \* history: per password-reset key, times of the requests let through
    mwResponse,         \* the response of the latest rate-limit middleware call, or NULL (proceed)
    calls,              \* number of service calls so far (bounds the run)
    sockets,            \* per socket id: NULL, or the gateway process and user of the open connection
    userSockets,        \* per gateway process: Map userId -> Set of socket ids
    typingTimeouts,     \* per gateway process: keys "userId:conversationId" with a pending timer
    emitted,            \* the events the latest handler broadcast, in order
    handled,            \* the gateway handler run in the latest step and what it found, or NULL
    hPresence,          \* history: per user, the status of the latest presence:user broadcast
    socketRef,          \* useSocket: socketRef.current, <<socket>> or <<>> for null
    clientSockets,      \* useSocket: per socket the instance created, its connection state
    connecting,         \* useSocket: per connect() call, "idle" or "await" (awaiting getAccessToken)
    isConnected,        \* useSocket: React state isConnected
    isConnecting,       \* useSocket: React state isConnecting
    hDisconnected       \* history: disconnect() was called and connect() has not been called since

jwtVars  == <<env, refreshTokens, blacklistedTokens, issued, pc, req, lastReturn,
              hTok, hRotated, hReuse, hRevokedAll, hBlacklisted, hLogout, hPasswordReset>>
sessVars == <<hLogout, hPasswordReset>>
rateVars == <<rateLimitStore, lastCheck, hAttempts, hLocked, hReset, hRetry, hAlone, calls>>
mwVars   == <<hPassed, mwResponse>>
sockVars == <<sockets, userSockets, typingTimeouts, emitted, handled, hPresence>>
clientVars == <<socketRef, clientSockets, connecting, isConnected, isConnecting, hDisconnected>>
vars     == <<now, ticks, env, refreshTokens, blacklistedTokens, issued, pc, req,
              lastReturn, hTok, hRotated, hReuse, hRevokedAll, hBlacklisted,
              hLogout, hPasswordReset,
              rateLimitStore, lastCheck, hAttempts, hLocked, hReset, hRetry, hAlone,
              hPassed, mwResponse, calls,
              sockets, userSockets, typingTimeouts, emitted, handled, hPresence,
              socketRef, clientSockets, connecting, isConnected, isConnecting,
              hDisconnected>>

----------------------------------------------------------------------------
(* Bounds of the model *)

MaxSteps  == 6    \* token service: calls plus clock advances in a run
MaxChecks == 7    \* rate limiter: checkRateLimit calls in a run
MaxTicks  == 2    \* rate limiter: clock advances in a run
MaxRetryChecks == 11   \* rate limiter, one key: checkRateLimit calls in a run
MaxRetryTicks  == 3    \* rate limiter, one key: clock advances in a run
MaxKeyChecks   == 5    \* rate limiter, keys followed apart: checkRateLimit calls in a run
MaxSockets     == 3    \* useSocket: sockets one instance creates in a run

Users    == {"u1", "u2"}
Requests == {"r1", "r2"}
Secrets  == {"k1", "k2"}

----------------------------------------------------------------------------
(* JWT_CONFIG *)

accessTokenExpiry  == 15 * 60
refreshTokenExpiry == 7 * 24 * 60 * 60

\* the clock stays where now + refreshTokenExpiry * 1000 is a 32-bit integer
MaxNow == 2 * refreshTokenExpiry * 1000

NULL == [null |-> TRUE]

NowSec == now \div 1000

\* jsonwebtoken: sign(payload, secret, {expiresIn, jwtid}) and verify(token, secret)
jwtSign(user, type, tokenId, secret, expiresIn) ==
    [jti |-> tokenId, sub |-> user, type |-> type, secret |-> secret,
     exp |-> NowSec + expiresIn]

jwtVerify(token, secret) ==
    IF token.secret = secret /\ NowSec < token.exp THEN token ELSE NULL

jwtDecode(token) == token

----------------------------------------------------------------------------
(* JWTService *)

\* mutant: token ids are drawn from a counter that restarts with every pair
generateTokenId_restarts(n) == n

\* generateTokenId: crypto.randomBytes(16), an id no earlier token carries
generateTokenId(n) == Cardinality(issued) + n

\* mutant: the access token is signed with the refresh secret
generateAccessToken_refreshSecret(user) ==
    jwtSign(user, "access", generateTokenId(1), env.JWT_REFRESH_SECRET,
            accessTokenExpiry)

\* generateAccessToken: signs with the access secret, stores nothing
generateAccessToken(user) ==
    jwtSign(user, "access", generateTokenId(1), env.JWT_ACCESS_SECRET,
            accessTokenExpiry)

\* generateRefreshToken: the signed token and the registry entry it stores
generateRefreshToken(user) ==
    jwtSign(user, "refresh", generateTokenId(2), env.JWT_REFRESH_SECRET,
            refreshTokenExpiry)

RegistryEntry(user, tokenId) ==
    [userId |-> user, tokenId |-> tokenId,
     expiresAt |-> now + refreshTokenExpiry * 1000,
     createdAt |-> now, isRevoked |-> FALSE]

\* refreshTokens.set(tokenId, {...})
Registered(reg, user, tokenId) ==
    [id \in DOMAIN reg \cup {tokenId} |->
        IF id = tokenId THEN RegistryEntry(user, tokenId) ELSE reg[id]]

\* generateTokenPair
generateTokenPair(user) ==
    [accessToken |-> generateAccessToken(user),
     refreshToken |-> generateRefreshToken(user),
     accessTokenExpiry |-> now + accessTokenExpiry * 1000,
     refreshTokenExpiry |-> now + refreshTokenExpiry * 1000]

\* mutant: the kind of the verified payload is not looked at
validateAccessToken_noKindCheck(token) ==
    LET decoded == jwtDecode(token) IN
    IF decoded.jti # 0 /\ decoded.jti \in blacklistedTokens THEN NULL
    ELSE jwtVerify(token, env.JWT_ACCESS_SECRET)

\* validateAccessToken: blacklist, then signature and expiry, then the kind
validateAccessToken(token) ==
    LET decoded == jwtDecode(token) IN
    IF decoded.jti # 0 /\ decoded.jti \in blacklistedTokens THEN NULL
    ELSE LET payload == jwtVerify(token, env.JWT_ACCESS_SECRET) IN
         IF payload = NULL THEN NULL
         ELSE IF payload.type # "access" THEN NULL
         ELSE payload

\* getCurrentUser: jwt.verify with the access secret and the kind check; the
\* blacklist is not consulted
getCurrentUser(token) ==
    LET payload == jwtVerify(token, env.JWT_ACCESS_SECRET) IN
    IF payload = NULL THEN NULL
    ELSE IF payload.type # "access" THEN NULL
    ELSE payload

\* mutant: the revoked flag of the registry entry is not looked at
validateRefreshToken_ignoresRevoked(token) ==
    LET payload == jwtVerify(token, env.JWT_REFRESH_SECRET) IN
    IF payload = NULL THEN NULL
    ELSE IF payload.type # "refresh" \/ payload.jti = 0 THEN NULL
    ELSE IF payload.jti \notin DOMAIN refreshTokens THEN NULL
    ELSE LET tokenInfo == refreshTokens[payload.jti] IN
         IF tokenInfo.expiresAt < now THEN NULL
         ELSE payload

\* validateRefreshToken: signature and expiry, the kind, then the registry
validateRefreshToken(token) ==
    LET payload == jwtVerify(token, env.JWT_REFRESH_SECRET) IN
    IF payload = NULL THEN NULL
    ELSE IF payload.type # "refresh" \/ payload.jti = 0 THEN NULL
    ELSE IF payload.jti \notin DOMAIN refreshTokens THEN NULL
    ELSE LET tokenInfo == refreshTokens[payload.jti] IN
         IF tokenInfo.isRevoked \/ tokenInfo.expiresAt < now THEN NULL
         ELSE payload

\* mutant: the entry is deleted instead of being flagged
revokeRefreshToken_deletesEntry(reg, tokenId) ==
    [id \in DOMAIN reg \ {tokenId} |-> reg[id]]

\* mutant: the revoked flag is set on a copy, the stored entry stays as it was
revokeRefreshToken_noEffect(reg, tokenId) == reg

\* revokeRefreshToken: the registry after the call
revokeRefreshToken(reg, tokenId) ==
    [id \in DOMAIN reg |->
        IF id = tokenId THEN [reg[id] EXCEPT !.isRevoked = TRUE] ELSE reg[id]]

\* mutant: the loop's comparison is negated, the user's own entries are skipped
revokeAllUserTokens_negated(reg, userId) ==
    [id \in DOMAIN reg |->
        IF reg[id].userId # userId THEN [reg[id] EXCEPT !.isRevoked = TRUE]
        ELSE reg[id]]

\* revokeAllUserTokens: the registry after the call
revokeAllUserTokens(reg, userId) ==
    [id \in DOMAIN reg |->
        IF reg[id].userId = userId THEN [reg[id] EXCEPT !.isRevoked = TRUE]
        ELSE reg[id]]

\* mutant: the id is added only when the token is already blacklisted
blacklistToken_inverted(bl, token) ==
    LET decoded == jwtDecode(token) IN
    IF decoded.jti # 0 /\ decoded.jti \in bl THEN bl \cup {decoded.jti} ELSE bl

\* blacklistToken: the blacklist after the call
blacklistToken(bl, token) ==
    LET decoded == jwtDecode(token) IN
    IF decoded.jti # 0 THEN bl \cup {decoded.jti} ELSE bl

\* mutant: the sweep compares the creation time instead of the expiry
cleanupExpiredTokens_byCreation(reg) ==
    [id \in {i \in DOMAIN reg : ~(reg[i].createdAt < now)} |-> reg[id]]

\* cleanupExpiredTokens: the registry after the sweep (the blacklist is not swept)
cleanupExpiredTokens(reg) ==
    [id \in {i \in DOMAIN reg : ~(reg[i].expiresAt < now)} |-> reg[id]]

\* What a caller can present: a token the service signed, or a copy of one
\* carrying a signature made without the service's secrets.
Forged(token) == [token EXCEPT !.secret = "forged"]
Presentable == issued \cup {Forged(t) : t \in issued}

\* POST /api/auth/refresh: the response built from what refreshTokens returned
refreshRoute(newTokens) ==
    IF newTokens = NULL
    THEN [status |-> 401, error |-> "Invalid or expired refresh token",
          refresh_token |-> ""]
    ELSE [status |-> 200, message |-> "Tokens refreshed successfully",
          accessToken |-> newTokens.accessToken,
          refresh_token |-> newTokens.refreshToken]

\* mutant: logout blacklists the access token but leaves the refresh tokens alone
logout_keepsRefreshTokens(bl, reg, token) ==
    LET user == validateAccessToken(token) IN
    IF user = NULL
    THEN [blacklist |-> bl, registry |-> reg, status |-> 401]
    ELSE [blacklist |-> blacklistToken(bl, token), registry |-> reg, status |-> 200]

\* POST /api/auth/logout: withAuth, then blacklistToken(token) and
\* revokeAllUserTokens(user.sub).  Yields both stores and the response status.
logout(bl, reg, token) ==
    LET user == validateAccessToken(token) IN
    IF user = NULL
    THEN [blacklist |-> bl, registry |-> reg, status |-> 401]
    ELSE [blacklist |-> blacklistToken(bl, token),
          registry |-> revokeAllUserTokens(reg, user.sub),
          status |-> 200]

\* POST password-reset confirm, from the reset token's lookup on: the token
\* service is told to revokeAllUserTokens(user.id), nothing is blacklisted
passwordResetConfirm(reg, userId, valid) ==
    IF valid THEN revokeAllUserTokens(reg, userId) ELSE reg

----------------------------------------------------------------------------
(* Operations *)

\* login / registration: generateTokenPair(user)
GenerateTokenPair(user) ==
    /\ calls + ticks < MaxSteps
    /\ calls' = calls + 1
    /\ LET pair == generateTokenPair(user) IN
       /\ issued' = issued \cup {pair.accessToken, pair.refreshToken}
       /\ refreshTokens' = Registered(refreshTokens, user, pair.refreshToken.jti)
       /\ hTok' = [id \in DOMAIN hTok \cup {pair.accessToken.jti, pair.refreshToken.jti} |->
                     IF id \in DOMAIN hTok THEN hTok[id]
                     ELSE [user |-> user, login |-> pair.refreshToken.jti]]
    /\ lastReturn' = NULL
    /\ UNCHANGED <<clientVars, sockVars, now, ticks, env, blacklistedTokens, pc, req,
                   hRotated, hReuse, hRevokedAll, hBlacklisted, rateLimitStore,
                   lastCheck, hAttempts, hLocked, hReset, hRetry, hAlone, mwVars, sessVars>>

\* refreshTokens, up to the await of the user lookup
RefreshTokensBegin(r, token) ==
    /\ calls + ticks < MaxSteps
    /\ calls' = calls + 1
    /\ pc[r] = "ready"
    /\ LET payload == validateRefreshToken(token) IN
       IF payload = NULL \/ payload.jti = 0
       THEN /\ lastReturn' = [token |-> token, pair |-> NULL,
                              reuse |-> token.jti \in DOMAIN hRotated,
                              response |-> refreshRoute(NULL)]
            /\ UNCHANGED <<pc, req, hReuse>>
       ELSE /\ lastReturn' = NULL
            /\ pc' = [pc EXCEPT ![r] = "await"]
            /\ req' = [req EXCEPT ![r] = payload]
            /\ hReuse' = [hReuse EXCEPT ![r] = token.jti \in DOMAIN hRotated]
    /\ UNCHANGED <<clientVars, sockVars, now, ticks, env, refreshTokens, blacklistedTokens, issued,
                   hTok, hRotated, hRevokedAll, hBlacklisted, rateLimitStore,
                   lastCheck, hAttempts, hLocked, hReset, hRetry, hAlone, mwVars, sessVars>>

\* mutant: the presented token is revoked before the user lookup is looked at
RefreshTokensFinish_revokesBeforeLookup(r, found) ==
    /\ calls + ticks < MaxSteps
    /\ calls' = calls + 1
    /\ pc[r] = "await"
    /\ pc' = [pc EXCEPT ![r] = "ready"]
    /\ req' = [req EXCEPT ![r] = NULL]
    /\ hReuse' = [hReuse EXCEPT ![r] = FALSE]
    /\ IF ~found
       THEN /\ refreshTokens' = revokeRefreshToken(refreshTokens, req[r].jti)
            /\ lastReturn' = [token |-> req[r], pair |-> NULL, reuse |-> hReuse[r],
                              response |-> refreshRoute(NULL)]
            /\ UNCHANGED <<issued, hTok, hRotated>>
       ELSE /\ LET payload == req[r]
                   pair == generateTokenPair(payload.sub)
               IN
               /\ refreshTokens' =
                     Registered(revokeRefreshToken(refreshTokens, payload.jti),
                                payload.sub, pair.refreshToken.jti)
               /\ issued' = issued \cup {pair.accessToken, pair.refreshToken}
               /\ lastReturn' = [token |-> req[r], pair |-> pair, reuse |-> hReuse[r],
                                 response |-> refreshRoute(pair)]
               /\ hTok' = [id \in DOMAIN hTok \cup {pair.accessToken.jti, pair.refreshToken.jti} |->
                             IF id \in DOMAIN hTok THEN hTok[id]
                             ELSE [user |-> payload.sub, login |-> hTok[payload.jti].login]]
               /\ hRotated' = [id \in DOMAIN hRotated \cup {payload.jti} |->
                                 IF id = payload.jti
                                 THEN (IF id \in DOMAIN hRotated THEN hRotated[id] + 1 ELSE 1)
                                 ELSE hRotated[id]]
    /\ UNCHANGED <<clientVars, sockVars, now, ticks, env, blacklistedTokens, hRevokedAll,
                   hBlacklisted, rateLimitStore,
                   lastCheck, hAttempts, hLocked, hReset, hRetry, hAlone, mwVars, sessVars>>

\* refreshTokens, from the user lookup's answer to the return
RefreshTokensFinish(r, found) ==
    /\ calls + ticks < MaxSteps
    /\ calls' = calls + 1
    /\ pc[r] = "await"
    /\ pc' = [pc EXCEPT ![r] = "ready"]
    /\ req' = [req EXCEPT ![r] = NULL]
    /\ hReuse' = [hReuse EXCEPT ![r] = FALSE]
    /\ IF ~found
       THEN /\ lastReturn' = [token |-> req[r], pair |-> NULL, reuse |-> hReuse[r],
                              response |-> refreshRoute(NULL)]
            /\ UNCHANGED <<refreshTokens, issued, hTok, hRotated>>
       ELSE /\ LET payload == req[r]
                   pair == generateTokenPair(payload.sub)
               IN
               /\ refreshTokens' =
                     Registered(revokeRefreshToken(refreshTokens, payload.jti),
                                payload.sub, pair.refreshToken.jti)
               /\ issued' = issued \cup {pair.accessToken, pair.refreshToken}
               /\ lastReturn' = [token |-> req[r], pair |-> pair, reuse |-> hReuse[r],
                                 response |-> refreshRoute(pair)]
               /\ hTok' = [id \in DOMAIN hTok \cup {pair.accessToken.jti, pair.refreshToken.jti} |->
                             IF id \in DOMAIN hTok THEN hTok[id]
                             ELSE [user |-> payload.sub, login |-> hTok[payload.jti].login]]
               /\ hRotated' = [id \in DOMAIN hRotated \cup {payload.jti} |->
                                 IF id = payload.jti
                                 THEN (IF id \in DOMAIN hRotated THEN hRotated[id] + 1 ELSE 1)
                                 ELSE hRotated[id]]
    /\ UNCHANGED <<clientVars, sockVars, now, ticks, env, blacklistedTokens, hRevokedAll,
                   hBlacklisted, rateLimitStore,
                   lastCheck, hAttempts, hLocked, hReset, hRetry, hAlone, mwVars, sessVars>>

RevokeRefreshToken(tokenId) ==
    /\ calls + ticks < MaxSteps
    /\ calls' = calls + 1
    /\ refreshTokens' = revokeRefreshToken(refreshTokens, tokenId)
    /\ lastReturn' = NULL
    /\ UNCHANGED <<clientVars, sockVars, now, ticks, env, blacklistedTokens, issued, pc, req,
                   hTok, hRotated, hReuse, hRevokedAll, hBlacklisted, rateLimitStore,
                   lastCheck, hAttempts, hLocked, hReset, hRetry, hAlone, mwVars, sessVars>>

RevokeAllUserTokens(userId) ==
    /\ calls + ticks < MaxSteps
    /\ calls' = calls + 1
    /\ refreshTokens' = revokeAllUserTokens(refreshTokens, userId)
    /\ hRevokedAll' = hRevokedAll \cup
          {t.jti : t \in {x \in issued : x.type = "refresh" /\ hTok[x.jti].user = userId}}
    /\ lastReturn' = NULL
    /\ UNCHANGED <<clientVars, sockVars, now, ticks, env, blacklistedTokens, issued, pc, req,
                   hTok, hRotated, hReuse, hBlacklisted, rateLimitStore,
                   lastCheck, hAttempts, hLocked, hReset, hRetry, hAlone, mwVars, sessVars>>

\* blacklistToken, handed the bearer token of the request as the logout route does
BlacklistToken(token) ==
    /\ calls + ticks < MaxSteps
    /\ calls' = calls + 1
    /\ blacklistedTokens' = blacklistToken(blacklistedTokens, token)
    /\ hBlacklisted' = hBlacklisted \cup {token}
    /\ lastReturn' = NULL
    /\ UNCHANGED <<clientVars, sockVars, now, ticks, env, refreshTokens, issued, pc, req,
                   hTok, hRotated, hReuse, hRevokedAll, rateLimitStore,
                   lastCheck, hAttempts, hLocked, hReset, hRetry, hAlone, mwVars, sessVars>>

\* the hourly setInterval callback
CleanupExpiredTokens ==
    /\ calls + ticks < MaxSteps
    /\ calls' = calls + 1
    /\ refreshTokens' = cleanupExpiredTokens(refreshTokens)
    /\ lastReturn' = NULL
    /\ UNCHANGED <<clientVars, sockVars, now, ticks, env, blacklistedTokens, issued, pc, req,
                   hTok, hRotated, hReuse, hRevokedAll, hBlacklisted, rateLimitStore,
                   lastCheck, hAttempts, hLocked, hReset, hRetry, hAlone, mwVars, sessVars>>

\* POST /api/auth/logout with `token` as the bearer token
Logout(token) ==
    LET out == logout(blacklistedTokens, refreshTokens, token) IN
    /\ calls + ticks < MaxSteps
    /\ calls' = calls + 1
    /\ blacklistedTokens' = out.blacklist
    /\ refreshTokens' = out.registry
    /\ hLogout' = IF out.status = 200
                  THEN hLogout \cup
                       {[access |-> token,
                         refresh |-> {x.jti : x \in {y \in issued :
                                         y.type = "refresh" /\ y.sub = token.sub}}]}
                  ELSE hLogout
    /\ lastReturn' = NULL
    /\ UNCHANGED <<clientVars, sockVars, now, ticks, env, issued, pc, req, hTok, hRotated, hReuse,
                   hRevokedAll, hBlacklisted, hPasswordReset,
                   rateLimitStore, lastCheck, hAttempts, hLocked, hReset, hRetry, hAlone, mwVars>>

\* POST password-reset confirm for the user a reset token belongs to; `valid`
\* is what the lookups of the reset token and of the user answer
PasswordResetConfirm(userId, valid) ==
    /\ calls + ticks < MaxSteps
    /\ calls' = calls + 1
    /\ refreshTokens' = passwordResetConfirm(refreshTokens, userId, valid)
    /\ hPasswordReset' = IF valid
                         THEN hPasswordReset \cup
                              {x \in issued : x.type = "access" /\ x.sub = userId}
                         ELSE hPasswordReset
    /\ lastReturn' = NULL
    /\ UNCHANGED <<clientVars, sockVars, now, ticks, env, blacklistedTokens, issued, pc, req, hTok, hRotated,
                   hReuse, hRevokedAll, hBlacklisted, hLogout,
                   rateLimitStore, lastCheck, hAttempts, hLocked, hReset, hRetry, hAlone, mwVars>>

----------------------------------------------------------------------------
(* PasswordService rate limiter *)

\* RATE_LIMIT_CONFIG
maxAttempts     == 5
lockoutDuration == 15 * 60 * 1000
trackingWindow  == 60 * 60 * 1000

Identifiers == {"alice"}
IpAddresses == {"", "10.0.0.1"}

\* const key = ipAddress ? `${identifier}:${ipAddress}` : identifier
RateLimitKey(identifier, ipAddress) ==
    IF ipAddress # "" THEN <<identifier, ":", ipAddress>> ELSE <<identifier>>

Keys == {RateLimitKey(i, a) : i \in Identifiers, a \in IpAddresses}

\* Math.ceil(a / b) for a >= 0, b > 0
Ceil(a, b) == (a + b - 1) \div b

\* record.lockedUntil is set and truthy
HasLock(record) == "lockedUntil" \in DOMAIN record /\ record.lockedUntil # 0

\* rateLimitStore.set(key, record)
StoreSet(store, key, record) ==
    [k \in DOMAIN store \cup {key} |-> IF k = key THEN record ELSE store[k]]

\* mutant: the key is looked up but never deleted
StoreDelete_keepsKey(store, key) == store

\* rateLimitStore.delete(key)
StoreDelete(store, key) == [k \in DOMAIN store \ {key} |-> store[k]]

\* the "clean up old records" loop
CleanedUp(store) ==
    [k \in {x \in DOMAIN store : ~(now - store[x].firstAttempt > trackingWindow)} |->
        store[k]]

\* checkRateLimit: the record is read before the clean-up loop runs, and the
\* branches below work on that record whether or not the loop deleted it.
\* Yields the store after the call and the RateLimitResult returned.
checkRateLimit(store, key) ==
    LET cleaned == CleanedUp(store) IN
    IF key \notin DOMAIN store
    THEN [store |-> StoreSet(cleaned, key, [attempts |-> 1, firstAttempt |-> now]),
          result |-> [allowed |-> TRUE, attemptsRemaining |-> maxAttempts - 1]]
    ELSE LET record == store[key] IN
    IF HasLock(record) /\ now < record.lockedUntil
    THEN [store |-> cleaned,
          result |-> [allowed |-> FALSE, attemptsRemaining |-> 0,
                      lockedUntil |-> record.lockedUntil,
                      retryAfter |-> Ceil(record.lockedUntil - now, 1000)]]
    ELSE IF HasLock(record) /\ now >= record.lockedUntil
    THEN [store |-> StoreSet(cleaned, key, [attempts |-> 1, firstAttempt |-> now]),
          result |-> [allowed |-> TRUE, attemptsRemaining |-> maxAttempts - 1]]
    ELSE LET newAttempts == record.attempts + 1
             attemptsRemaining ==
                 IF maxAttempts - newAttempts > 0 THEN maxAttempts - newAttempts ELSE 0
         IN
         IF newAttempts >= maxAttempts
         THEN [store |-> StoreSet(cleaned, key,
                             [attempts |-> newAttempts,
                              firstAttempt |-> record.firstAttempt,
                              lockedUntil |-> now + lockoutDuration]),
               result |-> [allowed |-> FALSE, attemptsRemaining |-> 0,
                           lockedUntil |-> now + lockoutDuration,
                           retryAfter |-> Ceil(lockoutDuration, 1000)]]
         ELSE [store |-> StoreSet(cleaned, key,
                             [attempts |-> newAttempts,
                              firstAttempt |-> record.firstAttempt]),
               result |-> [allowed |-> TRUE, attemptsRemaining |-> attemptsRemaining]]

\* keep the latest maxAttempts entries of a log
Latest(log) ==
    IF Len(log) > maxAttempts THEN SubSeq(log, Len(log) - maxAttempts + 1, Len(log))
    ELSE log

\* one call of checkRateLimit and what the histories keep of it; hAlone is
\* left to the caller
AttemptCall(identifier, ipAddress) ==
    LET key == RateLimitKey(identifier, ipAddress)
        out == checkRateLimit(rateLimitStore, key)
    IN
    /\ calls' = calls + 1
    /\ rateLimitStore' = out.store
    /\ lastCheck' = [key |-> key, result |-> out.result,
                     afterReset |-> hReset[key], promised |-> hRetry[key]]
    /\ hAttempts' = [hAttempts EXCEPT ![key] = Latest(Append(@, now))]
    /\ hLocked' = [hLocked EXCEPT ![key] =
                      IF ~out.result.allowed /\ out.result.lockedUntil = now + lockoutDuration
                      THEN <<now>> ELSE @]
    /\ hReset' = [hReset EXCEPT ![key] = <<>>]
    /\ hRetry' = [hRetry EXCEPT ![key] =
                     IF ~out.result.allowed THEN <<now + out.result.retryAfter * 1000>>
                     ELSE IF @ # <<>> /\ now >= @[1] THEN <<>>
                     ELSE @]
    /\ UNCHANGED <<clientVars, sockVars, now, ticks, jwtVars, mwVars>>

\* one call of checkRateLimit, as the login route makes on every attempt
Attempt(identifier, ipAddress) ==
    AttemptCall(identifier, ipAddress) /\ UNCHANGED hAlone

CheckRateLimit(identifier, ipAddress) ==
    calls < MaxChecks /\ Attempt(identifier, ipAddress)

\* the same call, followed by what checkRateLimit yields for the key on its own
\* store, the store no call on another key has touched
CheckKey(identifier, ipAddress) ==
    LET key == RateLimitKey(identifier, ipAddress) IN
    /\ calls < MaxKeyChecks
    /\ AttemptCall(identifier, ipAddress)
    /\ hAlone' = [hAlone EXCEPT ![key] = checkRateLimit(@.store, key)]

\* resetRateLimit (after a successful login)
ResetRateLimit(identifier, ipAddress) ==
    LET key == RateLimitKey(identifier, ipAddress) IN
    /\ rateLimitStore' = StoreDelete(rateLimitStore, key)
    /\ hAttempts' = [hAttempts EXCEPT ![key] = <<>>]
    /\ hLocked' = [hLocked EXCEPT ![key] = <<>>]
    /\ hReset' = [hReset EXCEPT ![key] =
                     IF key \in DOMAIN rateLimitStore
                     THEN <<rateLimitStore[key].attempts>> ELSE <<0>>]
    /\ hRetry' = [hRetry EXCEPT ![key] = <<>>]
    /\ hAlone' = [hAlone EXCEPT ![key] =
                     [store |-> StoreDelete(@.store, key), result |-> NULL]]
    /\ lastCheck' = NULL
    /\ UNCHANGED <<clientVars, sockVars, now, ticks, jwtVars, mwVars, calls>>

----------------------------------------------------------------------------
(* Rate-limit middleware (rate-limit-middleware.ts) *)

\* passwordResetRateLimit: the options handed to createRateLimitMiddleware
passwordResetMaxRequests == 3
passwordResetWindowMs    == 60 * 60 * 1000

\* req.ip || x-forwarded-for || x-real-ip || 'unknown'
RequestOrigin(ipAddress) == IF ipAddress # "" THEN ipAddress ELSE "unknown"

ResetKeys == {RateLimitKey("password-reset", RequestOrigin(a)) : a \in IpAddresses}

\* the middleware returned by createRateLimitMiddleware(identifierExtractor, options):
\* maxRequests only fills the X-RateLimit-Limit header, the decision is
\* checkRateLimit's.  Yields the store after the call and the response (NULL: proceed).
rateLimitMiddleware(store, identifier, ipAddress, maxRequests) ==
    LET out == checkRateLimit(store, RateLimitKey(identifier, RequestOrigin(ipAddress))) IN
    [store |-> out.store,
     response |-> IF ~out.result.allowed
                  THEN [status |-> 429, limit |-> maxRequests,
                        retryAfter |-> out.result.retryAfter]
                  ELSE NULL]

\* POST /api/auth/password/request, up to the rate-limit decision
PasswordResetRequest(ipAddress) ==
    LET key == RateLimitKey("password-reset", RequestOrigin(ipAddress))
        out == rateLimitMiddleware(rateLimitStore, "password-reset", ipAddress,
                                   passwordResetMaxRequests)
    IN
    /\ calls < MaxChecks
    /\ calls' = calls + 1
    /\ rateLimitStore' = out.store
    /\ mwResponse' = out.response
    /\ hPassed' = IF out.response = NULL
                  THEN [hPassed EXCEPT ![key] = Append(@, now)]
                  ELSE hPassed
    /\ lastCheck' = NULL
    /\ UNCHANGED <<clientVars, sockVars, now, ticks, jwtVars, hAttempts, hLocked, hReset, hRetry, hAlone>>

\* the clock advances by d ms; the histories keep what can still matter:
\* lastCheck and lastReturn are the calls that returned at the current instant,
\* hAttempts the checks that are no older than the tracking window
Advance(d) ==
    /\ now + d <= MaxNow
    /\ now' = now + d
    /\ ticks' = ticks + 1
    /\ lastCheck' = NULL
    /\ lastReturn' = NULL
    /\ hAttempts' = [k \in Keys |->
          SelectSeq(hAttempts[k], LAMBDA t : ~(now' - t > trackingWindow))]
    /\ UNCHANGED <<clientVars, sockVars, env, refreshTokens, blacklistedTokens, issued, pc, req,
                   hTok, hRotated, hReuse, hRevokedAll, hBlacklisted,
                   rateLimitStore, hLocked, hReset, hRetry, hAlone, mwVars, sessVars, calls>>

Tick(d) == calls + ticks < MaxSteps /\ Advance(d)

TickRate(d) == ticks < MaxTicks /\ Advance(d)

----------------------------------------------------------------------------
(* Socket gateway: class SocketService.  Every gateway process holds its   *)
(* own userSockets and typingTimeouts maps; io.emit and                    *)
(* socket.to(room).emit reach the clients of every process through the     *)
(* Redis adapter.  A pending setTimeout is a key of typingTimeouts; its    *)
(* callback may run at any later step.                                     *)

Processes     == {"p1", "p2"}
SocketIds     == {"s1", "s2"}
Conversations == {"c1", "c2"}
Statuses      == {"online", "away", "offline"}

\* `${socket.userId}:${conversationId}`
typingKey(userId, conversationId) == <<userId, conversationId>>

presenceUser(userId, status) ==
    [event |-> "presence:user", userId |-> userId, status |-> status,
     lastSeen |-> IF status = "offline" THEN <<now>> ELSE <<>>]

typingUser(userId, conversationId, isTyping) ==
    [event |-> "typing:user", conversationId |-> conversationId,
     userId |-> userId, isTyping |-> isTyping]

messageNew(senderId, conversationId) ==
    [event |-> "message:new", conversationId |-> conversationId, senderId |-> senderId]

\* io.emit('presence:user', ...)
broadcastPresence(userId, status) == <<presenceUser(userId, status)>>

\* adds the socket id to the user's set, creating the set when it is missing
trackSocket(tracked, userId, socketId) ==
    [tracked EXCEPT ![userId] = @ \cup {socketId}]

\* sets the timer of the key (an existing one is cleared and replaced), then
\* broadcasts isTyping true
handleTypingStart(timeouts, userId, conversationId) ==
    [typingTimeouts |-> timeouts \cup {typingKey(userId, conversationId)},
     emitted |-> <<typingUser(userId, conversationId, TRUE)>>]

\* clears and deletes the timer of the key when there is one, and broadcasts
\* isTyping false in either case
handleTypingStop(timeouts, userId, conversationId) ==
    [typingTimeouts |-> timeouts \ {typingKey(userId, conversationId)},
     emitted |-> <<typingUser(userId, conversationId, FALSE)>>]

\* the mutation of handleMessageSend that only broadcasts the message
handleMessageSend_onlyMessage(timeouts, userId, conversationId) ==
    [typingTimeouts |-> timeouts,
     emitted |-> <<messageNew(userId, conversationId)>>]

\* broadcasts message:new to the room, then stops the sender's typing indicator
handleMessageSend(timeouts, userId, conversationId) ==
    LET stop == handleTypingStop(timeouts, userId, conversationId)
    IN  [typingTimeouts |-> stop.typingTimeouts,
         emitted |-> <<messageNew(userId, conversationId)>> \o stop.emitted]

\* removes the socket id; when the user's set becomes empty the user is dropped
\* and offline is broadcast; every timer of the user on this process is
\* cleared without a broadcast
handleDisconnection(tracked, timeouts, userId, socketId) ==
    LET rest == tracked[userId] \ {socketId}
    IN  [userSockets |-> [tracked EXCEPT ![userId] = rest],
         typingTimeouts |-> {k \in timeouts : k[1] # userId},
         emitted |-> IF tracked[userId] # {} /\ rest = {}
                     THEN broadcastPresence(userId, "offline")
                     ELSE <<>>]

\* the open connections of a user, on every gateway process
LiveConnections(userId) ==
    {s \in SocketIds : sockets[s] # NULL /\ sockets[s].userId = userId}

\* the status the latest presence:user broadcast of the step gives each user
Shown(events) ==
    [u \in Users |->
        LET on == {i \in DOMAIN events : /\ events[i].event = "presence:user"
                                         /\ events[i].userId = u}
        IN  IF on = {} THEN hPresence[u]
            ELSE events[CHOOSE i \in on : \A j \in on : j <= i].status]

\* what the latest step handled: the handler, where it ran, for whom, and what
\* it found before it acted
Handled(handler, process, socketId, userId, conversationId) ==
    [handler |-> handler, process |-> process, socketId |-> socketId,
     userId |-> userId, conversationId |-> conversationId,
     hadTimer |-> typingKey(userId, conversationId) \in typingTimeouts[process],
     live |-> Cardinality(LiveConnections(userId)),
     shown |-> hPresence[userId]]

\* The gateway never touches the token service or the rate limiter.
SocketFrame == UNCHANGED <<now, ticks, jwtVars, rateVars, mwVars, clientVars>>

\* a client connects to process p with socket id s: authenticateSocket, then
\* handleConnection when the middleware accepted the handshake
Connect(p, s, userId, authenticated) ==
    /\ sockets[s] = NULL
    /\ handled' = Handled("connection", p, s, userId, "")
    /\ IF authenticated
       THEN /\ userSockets' = [userSockets EXCEPT ![p] = trackSocket(@, userId, s)]
            /\ sockets' = [sockets EXCEPT ![s] = [process |-> p, userId |-> userId]]
            /\ emitted' = broadcastPresence(userId, "online")
       ELSE /\ emitted' = <<>>
            /\ UNCHANGED <<sockets, userSockets>>
    /\ hPresence' = Shown(emitted')
    /\ UNCHANGED typingTimeouts
    /\ SocketFrame

\* socket.on('disconnect')
Disconnect(s) ==
    /\ sockets[s] # NULL
    /\ LET p == sockets[s].process
           u == sockets[s].userId
           r == handleDisconnection(userSockets[p], typingTimeouts[p], u, s)
       IN  /\ handled' = Handled("disconnect", p, s, u, "")
           /\ userSockets' = [userSockets EXCEPT ![p] = r.userSockets]
           /\ typingTimeouts' = [typingTimeouts EXCEPT ![p] = r.typingTimeouts]
           /\ emitted' = r.emitted
    /\ sockets' = [sockets EXCEPT ![s] = NULL]
    /\ hPresence' = Shown(emitted')
    /\ SocketFrame

\* socket.on('presence:update')
PresenceUpdate(s, status) ==
    /\ sockets[s] # NULL
    /\ handled' = Handled("presence:update", sockets[s].process, s, sockets[s].userId, "")
    /\ emitted' = broadcastPresence(sockets[s].userId, status)
    /\ hPresence' = Shown(emitted')
    /\ UNCHANGED <<sockets, userSockets, typingTimeouts>>
    /\ SocketFrame

\* socket.on('message:typing:start')
TypingStart(s, conversationId) ==
    /\ sockets[s] # NULL
    /\ LET p == sockets[s].process
           r == handleTypingStart(typingTimeouts[p], sockets[s].userId, conversationId)
       IN  /\ handled' = Handled("message:typing:start", p, s, sockets[s].userId, conversationId)
           /\ typingTimeouts' = [typingTimeouts EXCEPT ![p] = r.typingTimeouts]
           /\ emitted' = r.emitted
    /\ UNCHANGED <<sockets, userSockets, hPresence>>
    /\ SocketFrame

\* socket.on('message:typing:stop')
TypingStop(s, conversationId) ==
    /\ sockets[s] # NULL
    /\ LET p == sockets[s].process
           r == handleTypingStop(typingTimeouts[p], sockets[s].userId, conversationId)
       IN  /\ handled' = Handled("message:typing:stop", p, s, sockets[s].userId, conversationId)
           /\ typingTimeouts' = [typingTimeouts EXCEPT ![p] = r.typingTimeouts]
           /\ emitted' = r.emitted
    /\ UNCHANGED <<sockets, userSockets, hPresence>>
    /\ SocketFrame

\* the callback of the timer handleTypingStart set, three seconds after it
TypingTimeout(p, userId, conversationId) ==
    /\ typingKey(userId, conversationId) \in typingTimeouts[p]
    /\ LET r == handleTypingStop(typingTimeouts[p], userId, conversationId)
       IN  /\ handled' = Handled("timeout", p, "", userId, conversationId)
           /\ typingTimeouts' = [typingTimeouts EXCEPT ![p] = r.typingTimeouts]
           /\ emitted' = r.emitted
    /\ UNCHANGED <<sockets, userSockets, hPresence>>
    /\ SocketFrame

\* socket.on('message:send')
MessageSend(s, conversationId) ==
    /\ sockets[s] # NULL
    /\ LET p == sockets[s].process
           r == handleMessageSend(typingTimeouts[p], sockets[s].userId, conversationId)
       IN  /\ handled' = Handled("message:send", p, s, sockets[s].userId, conversationId)
           /\ typingTimeouts' = [typingTimeouts EXCEPT ![p] = r.typingTimeouts]
           /\ emitted' = r.emitted
    /\ UNCHANGED <<sockets, userSockets, hPresence>>
    /\ SocketFrame

----------------------------------------------------------------------------
(* useSocket (src/lib/socket/client.ts): one instance of the hook with a    *)
(* signed-in user.  A socket the instance created is "connecting" from io() *)
(* until its connect event, "connected" after it, and "closed" once         *)
(* socket.disconnect() was called on it.                                    *)

Callers == {"a", "b"}
ClientSocketIds == 1..MaxSockets

\* the sockets of the instance that are open or on their way to be
OpenSockets == {s \in ClientSocketIds : clientSockets[s] \in {"connecting", "connected"}}

\* socketRef.current?.connected
RefConnected == socketRef # <<>> /\ clientSockets[socketRef[1]] = "connected"

\* the id of the socket the next io() call creates
NewSocket == Cardinality({s \in ClientSocketIds : clientSockets[s] # "none"}) + 1

ClientFrame == UNCHANGED <<now, ticks, jwtVars, rateVars, mwVars, sockVars>>

\* connect(), up to the await of getAccessToken
ConnectBegin(c) ==
    /\ connecting[c] = "idle"
    /\ ~RefConnected
    /\ connecting' = [connecting EXCEPT ![c] = "await"]
    /\ isConnecting' = TRUE
    /\ hDisconnected' = FALSE
    /\ UNCHANGED <<socketRef, clientSockets, isConnected>>
    /\ ClientFrame

\* connect(), from the answer of getAccessToken on: without a token it throws
\* and gives up, with one it creates the socket and stores it in socketRef
ConnectFinish(c, token) ==
    /\ connecting[c] = "await"
    /\ connecting' = [connecting EXCEPT ![c] = "idle"]
    /\ IF token
       THEN /\ NewSocket <= MaxSockets
            /\ clientSockets' = [clientSockets EXCEPT ![NewSocket] = "connecting"]
            /\ socketRef' = <<NewSocket>>
            /\ UNCHANGED isConnecting
       ELSE /\ isConnecting' = FALSE
            /\ UNCHANGED <<socketRef, clientSockets>>
    /\ UNCHANGED <<isConnected, hDisconnected>>
    /\ ClientFrame

\* socket.on('connect')
SocketConnected(s) ==
    /\ clientSockets[s] = "connecting"
    /\ clientSockets' = [clientSockets EXCEPT ![s] = "connected"]
    /\ isConnected' = TRUE
    /\ isConnecting' = FALSE
    /\ UNCHANGED <<socketRef, connecting, hDisconnected>>
    /\ ClientFrame

\* socket.on('disconnect') after the connection was lost: the socket goes back
\* to connecting (reconnection: true)
SocketDropped(s) ==
    /\ clientSockets[s] = "connected"
    /\ clientSockets' = [clientSockets EXCEPT ![s] = "connecting"]
    /\ isConnected' = FALSE
    /\ UNCHANGED <<socketRef, connecting, isConnecting, hDisconnected>>
    /\ ClientFrame

\* disconnect(): closes the socket socketRef holds, if any
ClientDisconnect ==
    /\ IF socketRef # <<>>
       THEN /\ clientSockets' = [clientSockets EXCEPT ![socketRef[1]] = "closed"]
            /\ socketRef' = <<>>
       ELSE UNCHANGED <<socketRef, clientSockets>>
    /\ isConnected' = FALSE
    /\ hDisconnected' = TRUE
    /\ UNCHANGED <<connecting, isConnecting>>
    /\ ClientFrame

----------------------------------------------------------------------------
(* Specifications *)

Init ==
    /\ now = 0
    /\ ticks = 0
    /\ env \in {[JWT_ACCESS_SECRET |-> "k1", JWT_REFRESH_SECRET |-> k] : k \in Secrets}
    /\ refreshTokens = <<>>
    /\ blacklistedTokens = {}
    /\ issued = {}
    /\ pc = [r \in Requests |-> "ready"]
    /\ req = [r \in Requests |-> NULL]
    /\ lastReturn = NULL
    /\ hTok = <<>>
    /\ hRotated = <<>>
    /\ hReuse = [r \in Requests |-> FALSE]
    /\ hRevokedAll = {}
    /\ hBlacklisted = {}
    /\ hLogout = {}
    /\ hPasswordReset = {}
    /\ rateLimitStore = <<>>
    /\ lastCheck = NULL
    /\ hAttempts = [k \in Keys |-> <<>>]
    /\ hLocked = [k \in Keys |-> <<>>]
    /\ hReset = [k \in Keys |-> <<>>]
    /\ hRetry = [k \in Keys |-> <<>>]
    /\ hAlone = [k \in Keys |-> [store |-> <<>>, result |-> NULL]]
    /\ hPassed = [k \in ResetKeys |-> <<>>]
    /\ mwResponse = NULL
    /\ calls = 0
    /\ sockets = [s \in SocketIds |-> NULL]
    /\ userSockets = [p \in Processes |-> [u \in Users |-> {}]]
    /\ typingTimeouts = [p \in Processes |-> {}]
    /\ emitted = <<>>
    /\ handled = NULL
    /\ hPresence = [u \in Users |-> "none"]
    /\ socketRef = <<>>
    /\ clientSockets = [s \in ClientSocketIds |-> "none"]
    /\ connecting = [c \in Callers |-> "idle"]
    /\ isConnected = FALSE
    /\ isConnecting = FALSE
    /\ hDisconnected = FALSE

\* clock steps that reach the instants just before, at and after the expiry of
\* an access token and of a refresh token
JwtSteps == {1, accessTokenExpiry * 1000 - 1, refreshTokenExpiry * 1000 - 1}

\* clock steps that reach the lockout and window instants of the rate limiter
RateSteps == {1, lockoutDuration, trackingWindow}

\* Users and request slots are interchangeable: u2 logs in only after u1 has,
\* and slot r2 is taken only while r1 is busy.
InOrder(u) == u = "u2" => \E t \in issued : t.sub = "u1"
Slot(r)    == r = "r2" => pc["r1"] = "await"

Next ==
    \/ \E u \in Users : InOrder(u) /\ GenerateTokenPair(u)
    \/ \E r \in Requests, t \in Presentable : Slot(r) /\ RefreshTokensBegin(r, t)
    \/ \E r \in Requests, found \in BOOLEAN : RefreshTokensFinish(r, found)
    \/ \E id \in 1..(Cardinality(issued) + 1) : RevokeRefreshToken(id)
    \/ \E u \in Users : RevokeAllUserTokens(u)
    \/ \E t \in {x \in issued : x.type = "access"} : BlacklistToken(t)
    \/ CleanupExpiredTokens
    \/ \E d \in JwtSteps : Tick(d)

Spec == Init /\ [][Next]_vars

\* the deployment whose access and refresh secrets differ
InitRate == Init /\ env.JWT_REFRESH_SECRET = "k2"

\* the token service with one refreshTokens call in flight at a time
NextRegistry ==
    \/ \E u \in Users : InOrder(u) /\ GenerateTokenPair(u)
    \/ \E t \in Presentable : RefreshTokensBegin("r1", t)
    \/ \E found \in BOOLEAN : RefreshTokensFinish("r1", found)
    \/ \E id \in 1..(Cardinality(issued) + 1) : RevokeRefreshToken(id)
    \/ \E u \in Users : RevokeAllUserTokens(u)
    \/ \E t \in {x \in issued : x.type = "access"} : BlacklistToken(t)
    \/ CleanupExpiredTokens
    \/ \E d \in JwtSteps : Tick(d)

SpecRegistry == InitRate /\ [][NextRegistry]_vars

\* the token service behind its routes: login, refresh, logout, password reset
NextSession ==
    \/ \E u \in Users : InOrder(u) /\ GenerateTokenPair(u)
    \/ \E r \in Requests, t \in Presentable : Slot(r) /\ RefreshTokensBegin(r, t)
    \/ \E r \in Requests, found \in BOOLEAN : RefreshTokensFinish(r, found)
    \/ \E t \in {x \in Presentable : x.type = "access"} : Logout(t)
    \/ \E u \in Users, valid \in BOOLEAN : PasswordResetConfirm(u, valid)
    \/ CleanupExpiredTokens
    \/ \E d \in JwtSteps : Tick(d)

SpecSession == Init /\ [][NextSession]_vars

NextRate ==
    \/ \E i \in Identifiers, a \in IpAddresses : CheckRateLimit(i, a)
    \/ \E i \in Identifiers, a \in IpAddresses : ResetRateLimit(i, a)
    \/ \E d \in RateSteps : TickRate(d)

SpecRate == InitRate /\ [][NextRate]_vars

\* the rate limiter with every key followed on its own
NextKeys ==
    \/ \E i \in Identifiers, a \in IpAddresses : CheckKey(i, a)
    \/ \E i \in Identifiers, a \in IpAddresses : ResetRateLimit(i, a)
    \/ \E d \in RateSteps : TickRate(d)

SpecKeys == InitRate /\ [][NextKeys]_vars

\* the rate limiter under the attempts of one caller on one key, in longer runs
RetryAttempt(identifier) == calls < MaxRetryChecks /\ Attempt(identifier, "")

TickRetry(d) == ticks < MaxRetryTicks /\ Advance(d)

NextRetry ==
    \/ \E i \in Identifiers : RetryAttempt(i)
    \/ \E d \in RateSteps : TickRetry(d)

SpecRetry == InitRate /\ [][NextRetry]_vars

\* the password-reset route behind its middleware
NextReset ==
    \/ \E a \in IpAddresses : PasswordResetRequest(a)
    \/ \E d \in RateSteps : TickRate(d)

SpecReset == InitRate /\ [][NextReset]_vars

\* the socket gateway under the events of its clients and its own timers
NextSocket ==
    \/ \E p \in Processes, s \in SocketIds, u \in Users, authenticated \in BOOLEAN :
          Connect(p, s, u, authenticated)
    \/ \E s \in SocketIds : Disconnect(s)
    \/ \E s \in SocketIds, status \in Statuses : PresenceUpdate(s, status)
    \/ \E s \in SocketIds, c \in Conversations : TypingStart(s, c)
    \/ \E s \in SocketIds, c \in Conversations : TypingStop(s, c)
    \/ \E p \in Processes, u \in Users, c \in Conversations : TypingTimeout(p, u, c)
    \/ \E s \in SocketIds, c \in Conversations : MessageSend(s, c)

SpecSocket == InitRate /\ [][NextSocket]_vars

\* one useSocket instance: its connect() and disconnect() calls and the events
\* of the sockets it created
NextClient ==
    \/ \E c \in Callers : ConnectBegin(c)
    \/ \E c \in Callers, token \in BOOLEAN : ConnectFinish(c, token)
    \/ \E s \in ClientSocketIds : SocketConnected(s)
    \/ \E s \in ClientSocketIds : SocketDropped(s)
    \/ ClientDisconnect

SpecClient == InitRate /\ [][NextClient]_vars

----------------------------------------------------------------------------
(* Properties of the token service, checked under Spec *)

\* the registry entry of a token id is active: present, not revoked, not expired
Active(id) ==
    /\ id \in DOMAIN refreshTokens
    /\ ~refreshTokens[id].isRevoked
    /\ ~(refreshTokens[id].expiresAt < now)

\* C1: single-use rotation.  A refreshTokens call that starts after a rotation
\* of the same token has returned a pair never passes validation and returns
\* no pair, whatever was issued, rotated, revoked or swept in between.
C1_SingleUseRotation ==
    /\ \A r \in Requests : pc[r] = "await" => ~hReuse[r]
    /\ (lastReturn # NULL /\ lastReturn.reuse) => lastReturn.pair = NULL

\* a rotated refresh token, genuine and not yet expired, was presented again
\* and the call returned null
C1_Witness ==
    /\ lastReturn # NULL
    /\ lastReturn.reuse
    /\ lastReturn.token \in issued
    /\ jwtVerify(lastReturn.token, env.JWT_REFRESH_SECRET) # NULL
    /\ lastReturn.pair = NULL

\* C2: rotation is atomic with respect to the consumed token.  Of the
\* refreshTokens calls presenting the same refresh token, at most one returns
\* a new pair.
C2_AtMostOneRotation ==
    \A id \in DOMAIN hRotated : hRotated[id] <= 1

\* C3: after revokeAllUserTokens(U), validateRefreshToken rejects every
\* refresh token that had been issued to U before the call.
C3_RevokeAllRejects ==
    \A t \in Presentable : t.jti \in hRevokedAll => validateRefreshToken(t) = NULL

\* a token revoked by revokeAllUserTokens that is genuine, unexpired and still
\* in the registry, so that only the revoked flag rejects it
C3_Witness ==
    \E t \in issued :
        /\ t.jti \in hRevokedAll
        /\ jwtVerify(t, env.JWT_REFRESH_SECRET) # NULL
        /\ t.jti \in DOMAIN refreshTokens
        /\ ~(refreshTokens[t.jti].expiresAt < now)
        /\ t.jti \notin DOMAIN hRotated

\* C4: kind separation.  validateAccessToken accepts no token issued as a
\* refresh token; validateRefreshToken and refreshTokens accept no token
\* issued as an access token.
C4_KindSeparation ==
    /\ \A t \in issued :
          /\ t.type = "refresh" => validateAccessToken(t) = NULL
          /\ t.type = "access" => validateRefreshToken(t) = NULL
    /\ \A r \in Requests : pc[r] = "await" => req[r].type = "refresh"
    /\ (lastReturn # NULL /\ lastReturn.token.type = "access") => lastReturn.pair = NULL

\* both kinds are signed with the same secret and an unexpired refresh token
\* exists, so that only the kind check keeps validateAccessToken from accepting it
C4_Witness ==
    \E t \in issued :
        /\ t.type = "refresh"
        /\ t.jti \notin blacklistedTokens
        /\ jwtVerify(t, env.JWT_ACCESS_SECRET) # NULL

\* C5: an access token returned by generateTokenPair(U) is accepted by
\* validateAccessToken while it is unexpired and its id is not blacklisted, and
\* the payload returned has sub = U.id and type = access.
C5_IssuedAccessAccepted ==
    \A t \in issued :
        (t.type = "access" /\ NowSec < t.exp /\ t.jti \notin blacklistedTokens) =>
            LET payload == validateAccessToken(t) IN
            /\ payload # NULL
            /\ payload.sub = hTok[t.jti].user
            /\ payload.type = "access"

\* an access token accepted in the last second of its life
C5_Witness ==
    \E t \in issued :
        /\ t.type = "access"
        /\ t.jti \notin blacklistedTokens
        /\ NowSec = t.exp - 1
        /\ validateAccessToken(t) # NULL

\* C6: once blacklistToken(T) was called, validateAccessToken(T) rejects T in
\* every later state.
C6_BlacklistedStaysRejected ==
    \A t \in hBlacklisted : validateAccessToken(t) = NULL

\* a blacklisted access token that is genuine and unexpired, after the clock
\* moved on: only the blacklist rejects it
C6_Witness ==
    \E t \in hBlacklisted :
        /\ t.type = "access"
        /\ jwtVerify(t, env.JWT_ACCESS_SECRET) # NULL
        /\ ticks > 0

\* the conditions the claim lists for validateRefreshToken to accept
RefreshAcceptable(t) ==
    /\ t.secret = env.JWT_REFRESH_SECRET
    /\ NowSec < t.exp
    /\ t.type = "refresh"
    /\ \E id \in DOMAIN refreshTokens : id = t.jti /\ Active(id)

\* C7: validateRefreshToken(T) returns T's payload exactly when T is correctly
\* signed, unexpired, of kind refresh and its id resolves to a registry entry
\* that is neither revoked nor expired; otherwise it returns null, and a call
\* of refreshTokens that it rejects leaves registry, blacklist and issued
\* tokens as they were.
C7_ValidateRefreshExact ==
    /\ [](\A t \in Presentable :
            /\ RefreshAcceptable(t) => validateRefreshToken(t) = t
            /\ ~RefreshAcceptable(t) => validateRefreshToken(t) = NULL)
    /\ [][(lastReturn' # NULL /\ lastReturn'.pair = NULL /\ pc' = pc)
            => UNCHANGED <<refreshTokens, blacklistedTokens, issued>>]_vars

\* a genuine refresh token inside its signed lifetime that is rejected only
\* because of its registry entry, next to one that is accepted
C7_Witness ==
    /\ \E t \in issued : RefreshAcceptable(t)
    /\ \E t \in issued :
          /\ t.type = "refresh"
          /\ jwtVerify(t, env.JWT_REFRESH_SECRET) # NULL
          /\ ~RefreshAcceptable(t)
    /\ lastReturn # NULL /\ lastReturn.pair = NULL

\* C8: of the registry entries descended from one login at most one is
\* active, and the step in which a rotation registers the new entry leaves the
\* consumed entry revoked.
C8_OneActivePerLogin ==
    \A login \in {hTok[id].login : id \in DOMAIN hTok} :
        Cardinality({id \in DOMAIN refreshTokens : hTok[id].login = login /\ Active(id)}) <= 1

----------------------------------------------------------------------------
(* Properties of the rate limiter, checked under SpecRate *)

\* the threshold part of C9 as the limiter counts: a check that leaves the
\* key's counter at maxAttempts is denied with attemptsRemaining = 0, a
\* positive retryAfter and a recorded lockout
ThresholdDenies ==
    lastCheck # NULL =>
        LET k == lastCheck.key
            r == lastCheck.result
        IN  (k \in DOMAIN rateLimitStore /\ rateLimitStore[k].attempts >= maxAttempts) =>
                /\ ~r.allowed
                /\ r.attemptsRemaining = 0
                /\ r.retryAfter > 0
                /\ HasLock(rateLimitStore[k])
                /\ rateLimitStore[k].lockedUntil > now

\* C9: a check is denied (attemptsRemaining = 0, positive retryAfter, lockout
\* recorded) when the attempts counted for its key reach the threshold, and
\* only then: every denial either comes from a lockout recorded by an earlier
\* check or is the check with which the attempts made on the key inside the
\* tracking window, since its last reset, reach maxAttempts.
C9_DeniedOnlyAtThreshold ==
    /\ ThresholdDenies
    /\ lastCheck # NULL =>
          LET k == lastCheck.key
              r == lastCheck.result
          IN  ~r.allowed =>
                  \/ Len(hAttempts[k]) >= maxAttempts
                  \/ r.lockedUntil < now + lockoutDuration

\* C10: a lockout lasts lockoutDuration.  Every check of a key made before
\* the time its lockout was recorded plus lockoutDuration is denied.
C10_LockoutLasts ==
    lastCheck # NULL =>
        LET k == lastCheck.key IN
        (hLocked[k] # <<>> /\ now < hLocked[k][1] + lockoutDuration) =>
            ~lastCheck.result.allowed

\* C11: only attempts inside the tracking window count.  A check of a key
\* whose earlier attempts (since its last reset) are all older than the
\* tracking window is treated as a first attempt: allowed, with
\* attemptsRemaining = maxAttempts - 1.
C11_OldAttemptsForgotten ==
    lastCheck # NULL =>
        LET k == lastCheck.key
            r == lastCheck.result
        IN  Len(hAttempts[k]) = 1 =>
                /\ r.allowed
                /\ r.attemptsRemaining = maxAttempts - 1

\* C12: after resetRateLimit(key) the next check of the key is allowed with
\* attemptsRemaining = maxAttempts - 1, whatever the counter was before.
C12_ResetClearsCounter ==
    (lastCheck # NULL /\ lastCheck.afterReset # <<>>) =>
        /\ lastCheck.result.allowed
        /\ lastCheck.result.attemptsRemaining = maxAttempts - 1

\* a key that was locked out when it was reset is checked and allowed
C12_Witness ==
    /\ lastCheck # NULL
    /\ lastCheck.afterReset # <<>>
    /\ lastCheck.afterReset[1] >= maxAttempts
    /\ lastCheck.result.allowed

\* C13: denials are recoverable.  A check of a key made at or after the time
\* its latest denial told the caller to retry at (time of the denial plus
\* retryAfter seconds) is allowed.
C13_AllowedAfterRetryAfter ==
    (lastCheck # NULL /\ lastCheck.promised # <<>> /\ now >= lastCheck.promised[1]) =>
        lastCheck.result.allowed

\* C14: the password-reset flow has the tighter threshold.  Of the
\* password-reset requests of one origin, at most passwordResetMaxRequests (3)
\* are let through within one window; the next one is answered 429.
C14_ResetThresholdIsThree ==
    \A k \in ResetKeys :
        LET passed == hPassed[k] IN
        passed # <<>> =>
            Len(SelectSeq(passed,
                    LAMBDA t : passed[Len(passed)] - t <= passwordResetWindowMs))
                <= passwordResetMaxRequests

----------------------------------------------------------------------------
(* Properties of the routes, checked under Spec and SpecSession *)

\* C15: refresh reuse tells the caller nothing.  A refreshTokens call on an
\* already rotated token returns no pair, its response is the response of
\* every other rejected rotation (the one the route builds for an invalid
\* token), and the registry entry of the reused token is still there and
\* revoked as long as the token's signed lifetime lasts.
C15_ReuseLooksInvalid ==
    lastReturn # NULL =>
        /\ lastReturn.pair = NULL => lastReturn.response = refreshRoute(NULL)
        /\ lastReturn.reuse =>
              /\ lastReturn.pair = NULL
              /\ NowSec < lastReturn.token.exp =>
                    /\ lastReturn.token.jti \in DOMAIN refreshTokens
                    /\ refreshTokens[lastReturn.token.jti].isRevoked

\* a genuine rotated token inside its signed lifetime was presented again
\* and answered 401
C15_Witness ==
    /\ lastReturn # NULL
    /\ lastReturn.reuse
    /\ lastReturn.token \in issued
    /\ NowSec < lastReturn.token.exp
    /\ lastReturn.response.status = 401

\* C16: after a logout of U with access token T completed, validateAccessToken
\* rejects T and validateRefreshToken rejects every refresh token issued to U
\* before the logout.
C16_LogoutInvalidates ==
    \A l \in hLogout :
        /\ validateAccessToken(l.access) = NULL
        /\ \A t \in Presentable : t.jti \in l.refresh => validateRefreshToken(t) = NULL

\* a logout whose access token and one of whose refresh tokens are genuine,
\* unexpired and, for the refresh token, still in the registry
C16_Witness ==
    \E l \in hLogout :
        /\ jwtVerify(l.access, env.JWT_ACCESS_SECRET) # NULL
        /\ \E t \in issued :
              /\ t.jti \in l.refresh
              /\ jwtVerify(t, env.JWT_REFRESH_SECRET) # NULL
              /\ t.jti \in DOMAIN refreshTokens
              /\ t.jti \notin DOMAIN hRotated

\* C17: after a successful password reset of U, validateAccessToken rejects
\* every access token issued to U before the reset.
C17_ResetInvalidatesAccess ==
    \A t \in hPasswordReset : validateAccessToken(t) = NULL

\* C18: housekeeping bounds both stores.  Right after cleanupExpiredTokens ran
\* at time t, the registry holds no entry that expired before t and the
\* blacklist holds no id of a token that expired before t.
C18_SweepPrunesBoth ==
    [][CleanupExpiredTokens =>
          /\ \A id \in DOMAIN refreshTokens' : ~(refreshTokens'[id].expiresAt < now')
          /\ \A id \in blacklistedTokens' :
                \A x \in issued' : x.jti = id => ~(x.exp * 1000 < now')]_vars

\* an offline presence:user broadcast for the user is among the latest events
OfflineEmitted(userId) ==
    \E i \in DOMAIN emitted :
        /\ emitted[i].event = "presence:user"
        /\ emitted[i].userId = userId
        /\ emitted[i].status = "offline"

\* C19: for a user with live connections, under any interleaving of the user's
\* connection opens and closes, offline is broadcast exactly once, at the moment
\* the user's live-connection count reaches zero, and never while one of the
\* user's connections is still open.
C19_OfflineOnlyAtZero ==
    \A u \in Users :
        /\ OfflineEmitted(u) => /\ LiveConnections(u) = {}
                                /\ handled.shown # "offline"
        /\ LiveConnections(u) = {} /\ hPresence[u] # "none" => hPresence[u] = "offline"

StopsEmitted(userId, conversationId) ==
    {i \in DOMAIN emitted : emitted[i] = typingUser(userId, conversationId, FALSE)}

\* C21: typing=false is broadcast exactly once per typing-to-idle transition.
\* An explicit stop, a sent message or the timer firing broadcasts it once when
\* the (user, room) pair was typing, and is a no-op without a broadcast when
\* the pair was already idle.
C21_StopBroadcastsOnce ==
    (handled # NULL /\ handled.handler \in {"message:typing:stop", "message:send", "timeout"}) =>
        Cardinality(StopsEmitted(handled.userId, handled.conversationId))
            = (IF handled.hadTimer THEN 1 ELSE 0)

\* C22: a revoke-all is not undone by a rotation in flight.  When
\* revokeAllUserTokens(U) ran while a refreshTokens call on one of U's tokens
\* was awaiting the user lookup, the call registers no new valid refresh token
\* for U: it returns no pair, or a pair whose refresh token validateRefreshToken
\* rejects.
C22_RevokeAllBeatsRotation ==
    (lastReturn # NULL /\ lastReturn.token.jti \in hRevokedAll) =>
        \/ lastReturn.pair = NULL
        \/ validateRefreshToken(lastReturn.pair.refreshToken) = NULL

\* C23: rate-limit keys are independent.  Every result checkRateLimit returns
\* for a key is the result it would have returned had the calls on the other
\* keys never been made.
C23_KeysIndependent ==
    lastCheck # NULL => lastCheck.result = hAlone[lastCheck.key].result

\* C24: every code path that accepts an access token honours the blacklist.
\* getCurrentUser returns a payload for a token only if validateAccessToken
\* accepts the same token.
C24_GetCurrentUserRefines ==
    \A t \in Presentable : getCurrentUser(t) # NULL => validateAccessToken(t) # NULL

Gone(t) ==
    /\ t.type = "refresh"
    /\ t.jti \notin DOMAIN refreshTokens \/ refreshTokens[t.jti].isRevoked

\* C26: revocation is permanent.  Once the entry of a refresh token id is
\* revoked (by a rotation, revokeRefreshToken or revokeAllUserTokens) or
\* removed by the sweep, every later step leaves it revoked or removed, and
\* validateRefreshToken rejects the token after every such step.
C26_RevocationPermanent ==
    [][\A t \in issued :
          Gone(t) => /\ Gone(t)'
                     /\ (validateRefreshToken(t) = NULL)'
                     /\ (validateRefreshToken(Forged(t)) = NULL)']_vars

\* a rotated refresh token, genuine and inside its signed lifetime, is rejected
\* although tokens were issued to its user after it was revoked and the clock
\* moved on
C26_Witness ==
    \E t \in issued :
        /\ Gone(t)
        /\ jwtVerify(t, env.JWT_REFRESH_SECRET) # NULL
        /\ t.jti \in DOMAIN hRotated
        /\ \E x \in issued : x.type = "refresh" /\ x.sub = t.sub /\ x.jti > t.jti /\ ~Gone(x)
        /\ ticks > 0
        /\ validateRefreshToken(t) = NULL

\* C27: the revocations leave everything else unchanged.  revokeAllUserTokens(U)
\* keeps every entry of another user as it is and changes only the revoked flag
\* of U's entries; revokeRefreshToken(id) keeps every entry with another id as
\* it is and changes only the revoked flag of id; neither adds or removes a
\* registry entry (an unknown id creates none) nor touches the blacklist.
C27_RevocationFrame ==
    [][/\ \A u \in Users :
            RevokeAllUserTokens(u) =>
                /\ DOMAIN refreshTokens' = DOMAIN refreshTokens
                /\ \A id \in DOMAIN refreshTokens :
                      /\ refreshTokens[id].userId # u => refreshTokens'[id] = refreshTokens[id]
                      /\ [refreshTokens'[id] EXCEPT !.isRevoked = FALSE]
                            = [refreshTokens[id] EXCEPT !.isRevoked = FALSE]
                /\ blacklistedTokens' = blacklistedTokens
       /\ \A tokenId \in 1..(Cardinality(issued) + 1) :
            RevokeRefreshToken(tokenId) =>
                /\ DOMAIN refreshTokens' = DOMAIN refreshTokens
                /\ \A id \in DOMAIN refreshTokens :
                      /\ id # tokenId => refreshTokens'[id] = refreshTokens[id]
                      /\ [refreshTokens'[id] EXCEPT !.isRevoked = FALSE]
                            = [refreshTokens[id] EXCEPT !.isRevoked = FALSE]
                /\ blacklistedTokens' = blacklistedTokens]_vars

\* revokeAllUserTokens(U) ran while another user held an active entry, which
\* is still active
C27_Witness ==
    \E id \in hRevokedAll, other \in DOMAIN refreshTokens :
        /\ other < id
        /\ hTok[other].user # hTok[id].user
        /\ id \in DOMAIN refreshTokens
        /\ refreshTokens[id].isRevoked
        /\ Active(other)

\* C28: attemptsRemaining is the number of further attempts that will be
\* allowed.  When a check of a key returned allowed with attemptsRemaining >= 1,
\* the next check of the key (no reset, no other call and no time in between)
\* is allowed; the first denial follows a check that announced 0.
C28_RemainingIsExact ==
    [][(/\ lastCheck # NULL
        /\ lastCheck' # NULL
        /\ lastCheck'.key = lastCheck.key
        /\ lastCheck.result.allowed
        /\ lastCheck.result.attemptsRemaining >= 1)
       => lastCheck'.result.allowed]_vars

\* C29: the housekeeping sweep is observationally transparent.  For every
\* token a caller can present, validateRefreshToken and validateAccessToken
\* return after cleanupExpiredTokens ran what they returned before it ran.
C29_SweepTransparent ==
    [][CleanupExpiredTokens =>
          \A t \in Presentable :
              /\ validateRefreshToken(t)' = validateRefreshToken(t)
              /\ validateAccessToken(t)' = validateAccessToken(t)]_vars

\* the sweep removed the registry entry of a refresh token whose signed
\* lifetime has ended
C29_Witness ==
    /\ lastReturn = NULL
    /\ \E t \in issued :
          /\ t.type = "refresh"
          /\ t.jti \notin DOMAIN refreshTokens
          /\ ~(NowSec < t.exp)
    /\ \E t \in issued : t.type = "refresh" /\ Active(t.jti)

\* C30: a useSocket instance holds at most one open socket.  At most one of
\* the sockets the instance created is open or connecting, and after
\* disconnect() with no later connect() call none of them is.
C30_AtMostOneSocket ==
    /\ Cardinality(OpenSockets) <= 1
    /\ hDisconnected => OpenSockets = {}

====
